---- MODULE Spec2Model ----
(***************************************************************************)
(* Model of the cloudflare-bypass integrations:                            *)
(*   integrations/web_screenshot_capture.py  CloudflareBypassMiddleware    *)
(*   integrations/python_client.py           CloudflareBypassClient        *)
(*                                                                         *)
(* The remote bypass service and the host capture function are external:   *)
(* every reply they can give is drawn from a small set.  A coroutine is    *)
(* split at its network awaits, one action per reply.                      *)
(***************************************************************************)
EXTENDS Integers, Sequences, FiniteSets, TLC

VARIABLES
    auto_detect,          \* self.auto_detect
    fallback_to_normal,   \* self.fallback_to_normal
    service_available,    \* self._service_available: "None", "True", "False"
    pc,                   \* per call: position of capture_with_fallback
    req,                  \* per call: [url, kwargs] the call was made with
    log,                  \* per call: external calls issued, in order
    healthResp,           \* per call: reply to GET /health
    detectResp,           \* per call: reply to POST /detect
    bypassResp,           \* per call: reply to POST /bypass
    needs,                \* per call: outcome of needs_bypass
    captureOut,           \* per call: outcome of capture
    hostOut,              \* per call: outcome of normal_capture_func
    result,               \* per call: outcome of capture_with_fallback
    wpc,                  \* wait_for_service: position
    max_attempts,         \* wait_for_service: argument
    wlog,                 \* wait_for_service: is_healthy and sleep calls, in order
    wlast,                \* wait_for_service: reply to its last GET /health
    wresult,              \* wait_for_service: outcome
    probe,                \* last direct call of a probe: [fn, resp]
    probeOut,             \* outcome of the last is_healthy/is_service_available
    detectOut,            \* outcome of the last direct detect_cloudflare
    probeAvail,           \* self._service_available of the probed middleware
    action,               \* last client action call: [fn, args, options, resp]
    actionOut             \* outcome of the last client action call

mwVars == <<auto_detect, fallback_to_normal, service_available, pc, req, log,
            healthResp, detectResp, bypassResp, needs, captureOut, hostOut,
            result>>
clVars == <<wpc, max_attempts, wlog, wlast, wresult, probe, probeOut,
            detectOut, probeAvail>>
acVars == <<action, actionOut>>
vars == <<mwVars, clVars, acVars>>

-----------------------------------------------------------------------------
(* Bounds *)

\* largest max_attempts handed to wait_for_service
MaxAttempts == 3

\* concurrent capture_with_fallback calls on one middleware instance
Calls == {"c1", "c2"}

-----------------------------------------------------------------------------
(* Values: JSON, HTTP replies, outcomes *)

Empty == [k \in {} |-> 0]

None == "<None>"

\* dict.get(key, default)
Get(d, k, default) == IF k \in DOMAIN d THEN d[k] ELSE default

\* a JSON object; a JSON value that is no object (null, list); a body that
\* is not JSON at all
Obj(f) == [kind |-> "object", fields |-> f]
NotObj == [kind |-> "null", fields |-> Empty]
Malformed == [kind |-> "malformed", fields |-> Empty]

\* an HTTP exchange: the transport failed (refused, timeout), or a reply
\* with response.ok and a body arrived
TransportFailure == [net |-> "fail", ok |-> FALSE, body |-> Malformed]
Http(ok, body) == [net |-> "ok", ok |-> ok, body |-> body]
NoResp == [net |-> "none", ok |-> FALSE, body |-> Malformed]

\* how a function call ends
Return(v) == [kind |-> "return", val |-> v]
Raise(e) == [kind |-> "raise", err |-> e]
Pending == [kind |-> "pending"]

Returned(o) == o.kind = "return"
Raised(o) == o.kind = "raise"

-----------------------------------------------------------------------------
(* Replies of the bypass service *)

HealthBodies ==
    { Malformed, NotObj, Obj(Empty),
      Obj([status |-> "healthy"]), Obj([status |-> "degraded"]) }

HealthResponses ==
    {TransportFailure} \cup { Http(ok, b) : ok \in BOOLEAN, b \in HealthBodies }

DetectedData == Obj([cloudflareDetected |-> TRUE, indicator |-> "cf-ray"])
UndetectedData == Obj([cloudflareDetected |-> FALSE])

DetectBodies ==
    { Malformed, NotObj, Obj(Empty),
      Obj([success |-> FALSE, error |-> "boom"]),
      Obj([success |-> TRUE]),
      Obj([success |-> TRUE, data |-> NotObj]),
      Obj([success |-> TRUE, data |-> Obj(Empty)]),
      Obj([success |-> TRUE, data |-> DetectedData]),
      Obj([success |-> TRUE, data |-> UndetectedData]) }

DetectResponses ==
    {TransportFailure}
        \cup { Http(TRUE, b) : b \in DetectBodies }
        \cup { Http(FALSE, b) :
                 b \in {Malformed, Obj([success |-> TRUE, data |-> DetectedData])} }

FullBypassData ==
    Obj([screenshot |-> "QQ==", cookies |-> <<"cf_clearance">>,
         finalUrl |-> "https://x", title |-> "t",
         cloudflareDetected |-> TRUE, cloudflareIndicator |-> "cf-ray",
         bypassSuccessful |-> TRUE, timing |-> "t1"])

BypassBodies ==
    { Malformed, NotObj, Obj(Empty),
      Obj([success |-> FALSE, error |-> "boom"]),
      Obj([success |-> TRUE]),
      Obj([success |-> TRUE, data |-> NotObj]),
      Obj([success |-> TRUE, data |-> Obj(Empty)]),
      Obj([success |-> TRUE, data |-> FullBypassData]) }

BypassResponses ==
    {TransportFailure}
        \cup { Http(TRUE, b) : b \in BypassBodies }
        \cup { Http(FALSE, b) :
                 b \in {Malformed, Obj([success |-> TRUE, data |-> FullBypassData])} }

\* what the host's own capture function can do: return a value of its own
\* shape, or raise
HostResult(tag) == [screenshot |-> None, host_payload |-> tag]
HostOutcomes ==
    { Return(HostResult("h1")), Return(HostResult("h2")), Raise("HostError") }

\* the calls the host makes: url and keyword arguments
Requests ==
    { [url |-> "https://a", kwargs |-> Empty],
      [url |-> "https://b",
       kwargs |-> [full_page |-> TRUE, width |-> 800, height |-> 600,
                   delay |-> 2]] }
NoReq == [url |-> None, kwargs |-> Empty]

-----------------------------------------------------------------------------
(* CloudflareBypassMiddleware: the functions, applied to a reply *)

Fallthrough == [kind |-> "fallthrough"]

AvailStr(b) == IF b THEN "True" ELSE "False"

\* the try block of is_service_available (lines 64-69)
IsServiceAvailableTry(resp) ==
    IF resp.net = "fail" THEN Raise("ClientError")
    ELSE IF resp.ok
         THEN IF resp.body.kind = "malformed" THEN Raise("ContentTypeError")
              ELSE IF resp.body.kind # "object" THEN Raise("AttributeError")
              ELSE Return(Get(resp.body.fields, "status", None) = "healthy")
         ELSE Fallthrough

\* variant whose last line returns the cached field instead of False
IsServiceAvailableCached(resp, sa) ==
    LET t == IsServiceAvailableTry(resp) IN
    IF Returned(t) THEN [out |-> t, avail |-> AvailStr(t.val)]
    ELSE IF Raised(t) THEN [out |-> Return(FALSE), avail |-> "False"]
    ELSE [out |-> Return(sa = "True"), avail |-> sa]

\* is_service_available: its outcome and the value it leaves in
\* self._service_available, given the value sa found there
IsServiceAvailable(resp, sa) ==
    LET t == IsServiceAvailableTry(resp) IN
    IF Returned(t) THEN [out |-> t, avail |-> AvailStr(t.val)]
    ELSE IF Raised(t) THEN [out |-> Return(FALSE), avail |-> "False"]
    ELSE [out |-> Return(FALSE), avail |-> sa]

SyntheticDetection ==
    Obj([cloudflareDetected |-> FALSE, error |-> "Detection failed"])

\* the try block of detect_cloudflare (lines 87-96)
DetectCloudflareTry(resp) ==
    IF resp.net = "fail" THEN Raise("ClientError")
    ELSE IF resp.ok
         THEN IF resp.body.kind = "malformed" THEN Raise("ContentTypeError")
              ELSE IF resp.body.kind # "object" THEN Raise("AttributeError")
              ELSE IF Get(resp.body.fields, "success", FALSE)
                   THEN IF "data" \in DOMAIN resp.body.fields
                        THEN Return(resp.body.fields.data)
                        ELSE Raise("KeyError")
                   ELSE Fallthrough
         ELSE Fallthrough

DetectCloudflare(resp) ==
    LET t == DetectCloudflareTry(resp) IN
    IF Returned(t) THEN t ELSE Return(SyntheticDetection)

\* variant of line 120 whose default is True
NeedsBypassOfDefaultTrue(detection) ==
    IF Raised(detection) THEN detection
    ELSE IF detection.val.kind # "object" THEN Raise("AttributeError")
    ELSE Return(Get(detection.val.fields, "cloudflareDetected", TRUE))

\* needs_bypass lines 119-120, given what detect_cloudflare gave back
NeedsBypassOf(detection) ==
    IF Raised(detection) THEN detection
    ELSE IF detection.val.kind # "object" THEN Raise("AttributeError")
    ELSE Return(Get(detection.val.fields, "cloudflareDetected", FALSE))

\* capture: the options posted to /bypass (lines 149-155)
CaptureOptions(kwargs) ==
    LET delay == Get(kwargs, "delay", 0) IN
    [fullPage |-> Get(kwargs, "full_page", FALSE),
     width |-> Get(kwargs, "width", 1024),
     height |-> Get(kwargs, "height", 768),
     waitAfterBypass |-> IF delay > 0 THEN delay * 1000 ELSE 3000,
     screenshot |-> TRUE]

EmptyDict == "{}"

\* variant that copies the screenshot only when the service sent one
TranslateResultSparse(bypass_data, url, kwargs) ==
    LET base ==
          [screenshot_format |-> "png",
           network_logs |-> <<>>,
           dom_elements |-> [clickable_elements |-> <<>>, forms |-> <<>>,
                             scripts |-> <<>>, popups |-> <<>>],
           final_url |-> Get(bypass_data, "finalUrl", url),
           capture_config |-> [full_page |-> Get(kwargs, "full_page", FALSE),
                               width |-> Get(kwargs, "width", 1024),
                               height |-> Get(kwargs, "height", 768),
                               delay |-> Get(kwargs, "delay", 0)],
           cloudflare_bypass |->
               [detected |-> Get(bypass_data, "cloudflareDetected", FALSE),
                indicator |-> Get(bypass_data, "cloudflareIndicator", None),
                successful |-> Get(bypass_data, "bypassSuccessful", FALSE),
                timing |-> Get(bypass_data, "timing", EmptyDict)]]
        shot == IF "screenshot" \in DOMAIN bypass_data
                THEN [screenshot |-> bypass_data.screenshot] ELSE Empty
        cookies == Get(bypass_data, "cookies", <<>>)
    IN  IF cookies # <<>> THEN base @@ shot @@ [cookies |-> cookies]
        ELSE base @@ shot

\* capture: the translation to the host's format (lines 170-200)
TranslateResult(bypass_data, url, kwargs) ==
    LET base ==
          [screenshot |-> Get(bypass_data, "screenshot", None),
           screenshot_format |-> "png",
           network_logs |-> <<>>,
           dom_elements |-> [clickable_elements |-> <<>>, forms |-> <<>>,
                             scripts |-> <<>>, popups |-> <<>>],
           final_url |-> Get(bypass_data, "finalUrl", url),
           capture_config |-> [full_page |-> Get(kwargs, "full_page", FALSE),
                               width |-> Get(kwargs, "width", 1024),
                               height |-> Get(kwargs, "height", 768),
                               delay |-> Get(kwargs, "delay", 0)],
           cloudflare_bypass |->
               [detected |-> Get(bypass_data, "cloudflareDetected", FALSE),
                indicator |-> Get(bypass_data, "cloudflareIndicator", None),
                successful |-> Get(bypass_data, "bypassSuccessful", FALSE),
                timing |-> Get(bypass_data, "timing", EmptyDict)]]
        cookies == Get(bypass_data, "cookies", <<>>)
    IN  IF cookies # <<>> THEN base @@ [cookies |-> cookies] ELSE base

\* variant of line 167 that reads the data field with a default:
\* data.get("data", {})
CaptureDataDefault(url, kwargs, resp) ==
    IF resp.net = "fail" THEN Raise("ClientError")
    ELSE IF resp.ok /\ resp.body.kind = "malformed" THEN Raise("ContentTypeError")
    ELSE IF resp.ok /\ resp.body.kind # "object" THEN Raise("AttributeError")
    ELSE IF resp.ok /\ Get(resp.body.fields, "success", FALSE)
         THEN LET data == Get(resp.body.fields, "data", Obj(Empty)) IN
              IF data.kind # "object" THEN Raise("AttributeError")
              ELSE Return(TranslateResult(data.fields, url, kwargs))
         ELSE Raise("BypassServiceError")

\* capture, given the reply to its POST /bypass (lines 157-207)
Capture(url, kwargs, resp) ==
    IF resp.net = "fail" THEN Raise("ClientError")
    ELSE IF resp.ok /\ resp.body.kind = "malformed" THEN Raise("ContentTypeError")
    ELSE IF resp.ok /\ resp.body.kind # "object" THEN Raise("AttributeError")
    ELSE IF resp.ok /\ Get(resp.body.fields, "success", FALSE)
         THEN IF "data" \notin DOMAIN resp.body.fields THEN Raise("KeyError")
              ELSE IF resp.body.fields.data.kind # "object"
                   THEN Raise("AttributeError")
                   ELSE Return(TranslateResult(resp.body.fields.data.fields,
                                               url, kwargs))
         ELSE Raise("BypassServiceError")

\* variant whose try block starts after needs_bypass: an exception of
\* needs_bypass is not caught
OnNeedsBypassUncaught(nb, fallback) ==
    IF Raised(nb) THEN "raise"
    ELSE IF nb.val THEN "bypass" ELSE "host"

\* variant of line 228 that takes the bypass path unless told otherwise
OnNeedsBypassEager(nb, fallback) ==
    IF Raised(nb) THEN (IF fallback THEN "host" ELSE "raise")
    ELSE IF nb.val \/ ~fallback THEN "bypass" ELSE "host"

\* capture_with_fallback after needs_bypass has ended with nb (lines 226-240):
\* issue the bypass call, call the host function, or raise to the caller
OnNeedsBypass(nb, fallback) ==
    IF Raised(nb) THEN (IF fallback THEN "host" ELSE "raise")
    ELSE IF nb.val THEN "bypass" ELSE "host"

\* variants of the except clause of lines 232-237: the host function is
\* called whatever fallback_to_normal says; the error is always raised
OnCaptureAlwaysFallback(co, fallback) ==
    IF Returned(co) THEN "return" ELSE "host"

OnCaptureNeverFallback(co, fallback) ==
    IF Returned(co) THEN "return" ELSE "raise"

\* capture_with_fallback after capture has ended with co (lines 230-240)
OnCapture(co, fallback) ==
    IF Returned(co) THEN "return"
    ELSE IF fallback THEN "host" ELSE "raise"

\* variants of line 240: a failed host call is tried again; a failed host
\* call is followed by the bypass call
OnHostRetry(out) == IF Returned(out) THEN "return" ELSE "host"

OnHostThenBypass(out) == IF Returned(out) THEN "return" ELSE "bypass"

\* capture_with_fallback after normal_capture_func has ended with out
\* (line 240): its value is returned, its exception is not caught
OnHost(out) == IF Returned(out) THEN "return" ELSE "raise"

-----------------------------------------------------------------------------
(* CloudflareBypassMiddleware: concurrent capture_with_fallback calls *)

PerCall(v) == [c \in Calls |-> v]

MwInit ==
    /\ auto_detect \in BOOLEAN
    /\ fallback_to_normal \in BOOLEAN
    /\ service_available = "None"
    /\ pc = PerCall("idle")
    /\ req = PerCall(NoReq)
    /\ log = PerCall(<<>>)
    /\ healthResp = PerCall(NoResp)
    /\ detectResp = PerCall(NoResp)
    /\ bypassResp = PerCall(NoResp)
    /\ needs = PerCall(Pending)
    /\ captureOut = PerCall(Pending)
    /\ hostOut = PerCall(Pending)
    /\ result = PerCall(Pending)

\* the call moves on: to a next external call, or back to its caller with out
Goto(c, where, out) ==
    IF where \in {"return", "raise"}
    THEN /\ pc' = [pc EXCEPT ![c] = "done"]
         /\ result' = [result EXCEPT ![c] = out]
         /\ log' = log
    ELSE /\ pc' = [pc EXCEPT ![c] = where]
         /\ result' = result
         /\ log' = [log EXCEPT ![c] = Append(@, where)]

\* variant of needs_bypass without the auto_detect test of lines 113-114
StartAlwaysProbe(c, r) ==
    /\ pc[c] = "idle"
    /\ req' = [req EXCEPT ![c] = r]
    /\ needs' = needs
    /\ Goto(c, "health", Pending)
    /\ UNCHANGED <<auto_detect, fallback_to_normal, service_available,
                   healthResp, detectResp, bypassResp, captureOut, hostOut>>
    /\ UNCHANGED <<clVars, acVars>>

\* capture_with_fallback is called; needs_bypass runs up to its first await
Start(c, r) ==
    /\ pc[c] = "idle"
    /\ req' = [req EXCEPT ![c] = r]
    /\ IF ~auto_detect
       THEN /\ needs' = [needs EXCEPT ![c] = Return(FALSE)]
            /\ Goto(c, OnNeedsBypass(Return(FALSE), fallback_to_normal), Pending)
       ELSE /\ needs' = needs
            /\ Goto(c, "health", Pending)
    /\ UNCHANGED <<auto_detect, fallback_to_normal, service_available,
                   healthResp, detectResp, bypassResp, captureOut, hostOut>>
    /\ UNCHANGED <<clVars, acVars>>

\* the reply to GET /health arrives: is_service_available finishes and
\* needs_bypass goes on to detect_cloudflare or returns False
HealthReply(c, resp) ==
    /\ pc[c] = "health"
    /\ healthResp' = [healthResp EXCEPT ![c] = resp]
    /\ LET a == IsServiceAvailable(resp, service_available) IN
       /\ service_available' = a.avail
       /\ IF Returned(a.out) /\ a.out.val
          THEN /\ needs' = needs
               /\ Goto(c, "detect", Pending)
          ELSE LET nb == IF Raised(a.out) THEN a.out ELSE Return(FALSE) IN
               /\ needs' = [needs EXCEPT ![c] = nb]
               /\ Goto(c, OnNeedsBypass(nb, fallback_to_normal), nb)
    /\ UNCHANGED <<auto_detect, fallback_to_normal, req, detectResp,
                   bypassResp, captureOut, hostOut>>
    /\ UNCHANGED <<clVars, acVars>>

\* variant of detect_cloudflare whose except path marks the service down
DetectReplyMarksDown(c, resp) ==
    /\ pc[c] = "detect"
    /\ detectResp' = [detectResp EXCEPT ![c] = resp]
    /\ service_available' =
           IF Raised(DetectCloudflareTry(resp)) THEN "False"
           ELSE service_available
    /\ LET nb == NeedsBypassOf(DetectCloudflare(resp)) IN
       /\ needs' = [needs EXCEPT ![c] = nb]
       /\ Goto(c, OnNeedsBypass(nb, fallback_to_normal), nb)
    /\ UNCHANGED <<auto_detect, fallback_to_normal, req,
                   healthResp, bypassResp, captureOut, hostOut>>
    /\ UNCHANGED <<clVars, acVars>>

\* the reply to POST /detect arrives: detect_cloudflare and needs_bypass
\* finish, capture_with_fallback routes
DetectReply(c, resp) ==
    /\ pc[c] = "detect"
    /\ detectResp' = [detectResp EXCEPT ![c] = resp]
    /\ LET nb == NeedsBypassOf(DetectCloudflare(resp)) IN
       /\ needs' = [needs EXCEPT ![c] = nb]
       /\ Goto(c, OnNeedsBypass(nb, fallback_to_normal), nb)
    /\ UNCHANGED <<auto_detect, fallback_to_normal, service_available, req,
                   healthResp, bypassResp, captureOut, hostOut>>
    /\ UNCHANGED <<clVars, acVars>>

\* the reply to POST /bypass arrives: capture finishes
BypassReply(c, resp) ==
    /\ pc[c] = "bypass"
    /\ bypassResp' = [bypassResp EXCEPT ![c] = resp]
    /\ LET co == Capture(req[c].url, req[c].kwargs, resp) IN
       /\ captureOut' = [captureOut EXCEPT ![c] = co]
       /\ Goto(c, OnCapture(co, fallback_to_normal), co)
    /\ UNCHANGED <<auto_detect, fallback_to_normal, service_available, req,
                   healthResp, detectResp, needs, hostOut>>
    /\ UNCHANGED <<clVars, acVars>>

\* normal_capture_func(url, **kwargs) finishes; line 240 hands its outcome on
HostReply(c, out) ==
    /\ pc[c] = "host"
    /\ hostOut' = [hostOut EXCEPT ![c] = out]
    /\ Goto(c, OnHost(out), out)
    /\ UNCHANGED <<auto_detect, fallback_to_normal, service_available, req,
                   healthResp, detectResp, bypassResp, needs, captureOut>>
    /\ UNCHANGED <<clVars, acVars>>

\* no client call and no direct probe is in progress or was made
ClientIdle ==
    /\ wpc = "idle"
    /\ max_attempts = 0
    /\ wlog = <<>>
    /\ wlast = NoResp
    /\ wresult = Pending
    /\ probe = [fn |-> "none", resp |-> NoResp]
    /\ probeOut = Pending
    /\ detectOut = Pending
    /\ probeAvail = "None"

\* no client action call was made
NoArgs == Empty
ActionIdle ==
    /\ action = [fn |-> "none", args |-> NoArgs, options |-> Empty,
                 resp |-> NoResp]
    /\ actionOut = Pending

Init == MwInit /\ ClientIdle /\ ActionIdle

Next ==
    \/ \E c \in Calls, r \in Requests : Start(c, r)
    \/ \E c \in Calls, resp \in HealthResponses : HealthReply(c, resp)
    \/ \E c \in Calls, resp \in DetectResponses : DetectReply(c, resp)
    \/ \E c \in Calls, resp \in BypassResponses : BypassReply(c, resp)
    \/ \E c \in Calls, out \in HostOutcomes : HostReply(c, out)

Spec == Init /\ [][Next]_vars

-----------------------------------------------------------------------------
(* CloudflareBypassClient *)

\* variant of _request that checks response.ok only when the body has an
\* error field
RequestLenient(resp) ==
    IF resp.net = "fail" THEN Raise("ClientError")
    ELSE IF resp.body.kind = "malformed" THEN Raise("ContentTypeError")
    ELSE IF ~resp.ok /\ resp.body.kind = "object"
                     /\ "error" \in DOMAIN resp.body.fields
         THEN Raise("ServiceError")
    ELSE Return(resp.body)

\* _request, given the HTTP exchange (lines 61-68)
Request(resp) ==
    IF resp.net = "fail" THEN Raise("ClientError")
    ELSE IF resp.body.kind = "malformed" THEN Raise("ContentTypeError")
    ELSE IF ~resp.ok
         THEN IF resp.body.kind # "object" THEN Raise("AttributeError")
              ELSE Raise("ServiceError")
    ELSE Return(resp.body)

\* the try block of is_healthy (lines 73-74)
IsHealthyTry(resp) ==
    LET r == Request(resp) IN
    IF Raised(r) THEN r
    ELSE IF r.val.kind # "object" THEN Raise("AttributeError")
    ELSE Return(Get(r.val.fields, "status", None) = "healthy")

IsHealthy(resp) ==
    LET t == IsHealthyTry(resp) IN
    IF Raised(t) THEN Return(FALSE) ELSE t

Count(seq, x) == Cardinality({ i \in DOMAIN seq : seq[i] = x })

\* is_healthy() calls and asyncio.sleep() calls the wait loop has made
attempts == Count(wlog, "is_healthy")
sleeps == Count(wlog, "sleep")

\* variant of the loop bound: range(max_attempts + 1)
LoopHeadOneMore(done) ==
    IF done <= max_attempts'
    THEN /\ wpc' = "check"
         /\ wlog' = Append(wlog, "is_healthy")
         /\ wresult' = wresult
    ELSE /\ wpc' = "done"
         /\ wlog' = wlog
         /\ wresult' = Raise("ServiceUnavailable")

\* the head of the for loop (line 80) with `done` iterations behind it:
\* one more is_healthy() call, or the raise of line 85
LoopHead(done) ==
    IF done < max_attempts'
    THEN /\ wpc' = "check"
         /\ wlog' = Append(wlog, "is_healthy")
         /\ wresult' = wresult
    ELSE /\ wpc' = "done"
         /\ wlog' = wlog
         /\ wresult' = Raise("ServiceUnavailable")

WaitStart(m) ==
    /\ wpc = "idle"
    /\ max_attempts' = m
    /\ LoopHead(0)
    /\ UNCHANGED <<wlast, probe, probeOut, detectOut, probeAvail>>
    /\ UNCHANGED <<mwVars, acVars>>

\* the reply to the loop's GET /health arrives: is_healthy finishes
WaitHealthReply(resp) ==
    /\ wpc = "check"
    /\ wlast' = resp
    /\ LET h == IsHealthy(resp) IN
       IF Raised(h)
       THEN /\ wpc' = "done"
            /\ wresult' = h
            /\ wlog' = wlog
       ELSE IF h.val
       THEN /\ wpc' = "done"
            /\ wresult' = Return(TRUE)
            /\ wlog' = wlog
       ELSE /\ wpc' = "sleep"
            /\ wresult' = wresult
            /\ wlog' = Append(wlog, "sleep")
    /\ UNCHANGED <<max_attempts, probe, probeOut, detectOut, probeAvail>>
    /\ UNCHANGED <<mwVars, acVars>>

\* asyncio.sleep(interval) is over: next iteration
WaitWake ==
    /\ wpc = "sleep"
    /\ max_attempts' = max_attempts
    /\ LoopHead(attempts)
    /\ UNCHANGED <<wlast, probe, probeOut, detectOut, probeAvail>>
    /\ UNCHANGED <<mwVars, acVars>>

\* a direct call of client.is_healthy()
ProbeIsHealthy(resp) ==
    /\ probe' = [fn |-> "is_healthy", resp |-> resp]
    /\ probeOut' = IsHealthy(resp)
    /\ UNCHANGED <<wpc, max_attempts, wlog, wlast, wresult, detectOut,
                   probeAvail>>
    /\ UNCHANGED <<mwVars, acVars>>

\* a direct call of middleware.is_service_available()
ProbeIsServiceAvailable(resp) ==
    /\ LET a == IsServiceAvailable(resp, probeAvail) IN
       /\ probe' = [fn |-> "is_service_available", resp |-> resp]
       /\ probeOut' = a.out
       /\ probeAvail' = a.avail
    /\ UNCHANGED <<wpc, max_attempts, wlog, wlast, wresult, detectOut>>
    /\ UNCHANGED <<mwVars, acVars>>

\* a direct call of middleware.detect_cloudflare(url)
ProbeDetectCloudflare(resp) ==
    /\ probe' = [fn |-> "detect_cloudflare", resp |-> resp]
    /\ detectOut' = DetectCloudflare(resp)
    /\ UNCHANGED <<wpc, max_attempts, wlog, wlast, wresult, probeOut,
                   probeAvail>>
    /\ UNCHANGED <<mwVars, acVars>>

\* no capture_with_fallback call is made
MwIdle == MwInit /\ auto_detect /\ fallback_to_normal

ClientInit == MwIdle /\ ClientIdle /\ ActionIdle

ClientNext ==
    \/ \E m \in 0..MaxAttempts : WaitStart(m)
    \/ \E resp \in HealthResponses : WaitHealthReply(resp)
    \/ WaitWake
    \/ \E resp \in HealthResponses : ProbeIsHealthy(resp)
    \/ \E resp \in HealthResponses : ProbeIsServiceAvailable(resp)
    \/ \E resp \in DetectResponses : ProbeDetectCloudflare(resp)

ClientSpec == ClientInit /\ [][ClientNext]_vars

\* the service answers or the HTTP timeout fires, and a sleep ends
ClientFairSpec ==
    ClientSpec /\ WF_vars(\E resp \in HealthResponses : WaitHealthReply(resp))
               /\ WF_vars(WaitWake)

-----------------------------------------------------------------------------
(* Properties of capture_with_fallback and needs_bypass *)

Done(c) == pc[c] = "done"
BypassCalls(c) == Count(log[c], "bypass")
HostCalls(c) == Count(log[c], "host")
DetectCalls(c) == Count(log[c], "detect")
HealthCalls(c) == Count(log[c], "health")

\* capture was called for c and raised
BypassFailed(c) == Raised(captureOut[c])

\* the /health reply says the service is up: status ok and "healthy"
ReportsHealthy(resp) ==
    /\ resp.net = "ok"
    /\ resp.ok
    /\ resp.body.kind = "object"
    /\ Get(resp.body.fields, "status", None) = "healthy"

\* the /health probe got a reply and it does not say the service is up
HealthFails(resp) == resp.net # "none" /\ ~ReportsHealthy(resp)

\* C1 as stated: a finished call has invoked exactly one of capture (POST
\* /bypass) and the host function, never both and never neither.
C1_ExactlyOneInvoked ==
    \A c \in Calls :
        Done(c) => (BypassCalls(c) >= 1) # (HostCalls(c) >= 1)

\* C1 amended: a finished call has invoked capture at most once and the host
\* function at most once; both, exactly when capture raised and
\* fallback_to_normal is on; neither, exactly when needs_bypass raised and
\* fallback_to_normal is off; otherwise exactly one.
C1_OneUnlessFallback ==
    \A c \in Calls :
        Done(c) =>
            /\ BypassCalls(c) <= 1
            /\ HostCalls(c) <= 1
            /\ (BypassCalls(c) = 1 /\ HostCalls(c) = 1)
                   <=> (BypassFailed(c) /\ fallback_to_normal)
            /\ (BypassCalls(c) = 0 /\ HostCalls(c) = 0)
                   <=> (Raised(needs[c]) /\ ~fallback_to_normal)

C1_Witness ==
    \E c \in Calls :
        /\ Done(c) /\ BypassCalls(c) = 1 /\ HostCalls(c) = 1
        /\ \E d \in Calls : Done(d) /\ BypassCalls(d) = 1 /\ HostCalls(d) = 0

\* C2 as stated: with fallback_to_normal on, when needs_bypass was true and
\* capture failed, the finished call has invoked the host function, has
\* returned the host's result and has not raised.
C2_FallbackNeverRaises ==
    \A c \in Calls :
        (Done(c) /\ fallback_to_normal /\ needs[c] = Return(TRUE)
                 /\ BypassFailed(c))
            => /\ HostCalls(c) = 1
               /\ Returned(result[c])
               /\ result[c] = hostOut[c]

\* C2 amended: in that case the call invokes the host function once and ends
\* as the host function ends: it returns the host's result, and raises only
\* the host function's own exception, never the bypass error.
C2_FallbackHandsOverToHost ==
    \A c \in Calls :
        (fallback_to_normal /\ needs[c] = Return(TRUE) /\ BypassFailed(c))
            => /\ HostCalls(c) = 1
               /\ pc[c] \in {"host", "done"}
               /\ Done(c) => /\ result[c] = hostOut[c]
                             /\ result[c] # captureOut[c]

C2_Witness ==
    \E c \in Calls :
        /\ Done(c) /\ fallback_to_normal /\ needs[c] = Return(TRUE)
        /\ bypassResp[c] = Http(TRUE, Obj([success |-> FALSE, error |-> "boom"]))
        /\ Returned(result[c]) /\ result[c] = hostOut[c]

\* C3: with fallback_to_normal off, when needs_bypass was true and capture
\* failed, the call raises the error capture raised and never invokes the
\* host function.
C3_NoFallbackRaises ==
    \A c \in Calls :
        (~fallback_to_normal /\ needs[c] = Return(TRUE) /\ BypassFailed(c))
            => /\ Done(c)
               /\ Raised(result[c])
               /\ result[c] = captureOut[c]
               /\ HostCalls(c) = 0
               /\ hostOut[c] = Pending

C3_Witness ==
    \E c \in Calls :
        /\ Done(c) /\ ~fallback_to_normal /\ needs[c] = Return(TRUE)
        /\ bypassResp[c] = TransportFailure
        /\ result[c] = Raise("ClientError")

\* C4: when the /health probe of a call fails (transport error, non-ok
\* status, no "healthy" status), needs_bypass has returned False, has not
\* raised, and no /detect call is issued.
C4_UnreachableMeansNoBypass ==
    \A c \in Calls :
        HealthFails(healthResp[c])
            => /\ needs[c] = Return(FALSE)
               /\ DetectCalls(c) = 0
               /\ detectResp[c] = NoResp

C4_Witness ==
    \E c \in Calls :
        /\ healthResp[c] = Http(FALSE, Obj([status |-> "healthy"]))
        /\ service_available = "True"
        /\ needs[c] = Return(FALSE)

\* the /detect reply carries a positive detection
PositiveDetect(resp) ==
    /\ resp.net = "ok"
    /\ resp.ok
    /\ resp.body.kind = "object"
    /\ Get(resp.body.fields, "success", FALSE)
    /\ "data" \in DOMAIN resp.body.fields
    /\ resp.body.fields.data.kind = "object"
    /\ Get(resp.body.fields.data.fields, "cloudflareDetected", FALSE)

\* C5: with auto_detect on and the service available, needs_bypass returns
\* the cloudflareDetected value detect_cloudflare reports (true, or false as
\* in the synthetic failure result); capture is called only after a healthy
\* /health reply and a positive detection.
C5_NeedsBypassFollowsDetection ==
    \A c \in Calls :
        /\ detectResp[c] # NoResp =>
              /\ auto_detect
              /\ ReportsHealthy(healthResp[c])
              /\ LET d == DetectCloudflare(detectResp[c]).val IN
                 (d.kind = "object" /\ "cloudflareDetected" \in DOMAIN d.fields)
                     => needs[c] = Return(d.fields.cloudflareDetected)
        /\ BypassCalls(c) >= 1 =>
              /\ ReportsHealthy(healthResp[c])
              /\ PositiveDetect(detectResp[c])
              /\ needs[c] = Return(TRUE)

C5_Witness ==
    \E c, d \in Calls :
        /\ detectResp[c] = Http(TRUE, Obj([success |-> TRUE, data |-> DetectedData]))
        /\ needs[c] = Return(TRUE)
        /\ detectResp[d] = Http(TRUE, Obj([success |-> FALSE, error |-> "boom"]))
        /\ needs[d] = Return(FALSE)

\* no capture call follows a host call in the log of c
NoBypassAfterHost(c) ==
    \A i, j \in DOMAIN log[c] :
        (log[c][i] = "host" /\ log[c][j] = "bypass") => j < i

\* C7: a value returned by capture_with_fallback is the value capture
\* returned or the value the host function returned, unchanged; the host
\* function is invoked at most once and capture never after it.
C7_ResultIsCaptureOrHost ==
    \A c \in Calls :
        /\ Returned(result[c]) =>
              \/ Returned(captureOut[c]) /\ result[c] = captureOut[c]
                                         /\ hostOut[c] = Pending
              \/ Returned(hostOut[c]) /\ result[c] = hostOut[c]
        /\ HostCalls(c) <= 1
        /\ NoBypassAfterHost(c)

C7_Witness ==
    \E c, d \in Calls :
        /\ Returned(result[c]) /\ result[c] = captureOut[c]
        /\ Returned(result[d]) /\ result[d] = hostOut[d] /\ BypassCalls(d) = 1

\* the /detect call fails: transport failure, non-ok status, malformed
\* body, success missing or false
DetectFails(resp) ==
    /\ resp.net # "none"
    /\ \/ resp.net = "fail"
       \/ ~resp.ok
       \/ resp.body.kind # "object"
       \/ ~Get(resp.body.fields, "success", FALSE)

\* C8: when the availability probe fails or reports not healthy, or the
\* detect call fails, the call makes no POST /bypass, invokes the host
\* function exactly once and ends with the host function's outcome, for
\* either value of fallback_to_normal.
C8_DownServiceIsPassThrough ==
    \A c \in Calls :
        (HealthFails(healthResp[c]) \/ DetectFails(detectResp[c]))
            => /\ BypassCalls(c) = 0
               /\ bypassResp[c] = NoResp
               /\ HostCalls(c) = 1
               /\ pc[c] \in {"host", "done"}
               /\ Done(c) => result[c] = hostOut[c]

C8_Witness ==
    \E c, d \in Calls :
        /\ ~fallback_to_normal
        /\ Done(c) /\ healthResp[c] = TransportFailure
        /\ Returned(result[c]) /\ result[c] = hostOut[c]
        /\ Done(d) /\ detectResp[d] = TransportFailure
        /\ Returned(result[d]) /\ result[d] = hostOut[d]

\* C9: an exception raised by the host function ends the call with that
\* exception: no second host call, no bypass call after it, on the direct
\* path and on the fallback path.
C9_HostErrorPropagates ==
    \A c \in Calls :
        Raised(hostOut[c])
            => /\ Done(c)
               /\ result[c] = hostOut[c]
               /\ HostCalls(c) = 1
               /\ log[c][Len(log[c])] = "host"

C9_Witness ==
    \E c, d \in Calls :
        /\ Raised(hostOut[c]) /\ BypassCalls(c) = 0 /\ Raised(result[c])
        /\ Raised(hostOut[d]) /\ BypassCalls(d) = 1 /\ Raised(result[d])

-----------------------------------------------------------------------------
(* Properties of the client's wait loop and of the advisory probes *)

\* C6: wait_for_service terminates; it never makes more than max_attempts
\* health checks; a healthy reply ends it at once with True; it raises only
\* after exactly max_attempts failed checks.
C6_WaitInv ==
    /\ attempts <= max_attempts
    /\ ReportsHealthy(wlast) => wpc = "done" /\ wresult = Return(TRUE)
    /\ wresult = Return(TRUE) => ReportsHealthy(wlast)
    /\ (wpc = "done" /\ ~ReportsHealthy(wlast))
           => /\ wresult = Raise("ServiceUnavailable")
              /\ attempts = max_attempts
    /\ wpc = "done" => wresult # Pending

C6_WaitTerminates ==
    /\ []C6_WaitInv
    /\ (wpc \in {"check", "sleep"}) ~> (wpc = "done")

C6_Witness ==
    /\ wpc = "done"
    /\ wresult = Raise("ServiceUnavailable")
    /\ max_attempts >= 2
    /\ attempts = max_attempts

\* C10: is_healthy, is_service_available and detect_cloudflare never raise;
\* on a failed remote call the first two return False and the third returns
\* the synthetic record with cloudflareDetected false and an error field.
C10_ProbesNeverRaise ==
    /\ probeOut.kind \in {"pending", "return"}
    /\ detectOut.kind \in {"pending", "return"}
    /\ (probe.fn \in {"is_healthy", "is_service_available"}
            /\ HealthFails(probe.resp))
           => probeOut = Return(FALSE)
    /\ (probe.fn = "detect_cloudflare" /\ DetectFails(probe.resp))
           => /\ detectOut = Return(SyntheticDetection)
              /\ detectOut.val.fields.cloudflareDetected = FALSE
              /\ "error" \in DOMAIN detectOut.val.fields

C10_Witness ==
    /\ probe.fn = "is_healthy"
    /\ probe.resp = Http(FALSE, Obj([status |-> "healthy"]))
    /\ probeOut = Return(FALSE)
    /\ detectOut = Return(SyntheticDetection)
    /\ probeAvail = "False"

-----------------------------------------------------------------------------
(* Properties of capture *)

\* the /bypass reply has an ok status and success true
OkAndSuccess(resp) ==
    /\ resp.net = "ok"
    /\ resp.ok
    /\ resp.body.kind = "object"
    /\ Get(resp.body.fields, "success", FALSE)

\* ... and its data field is a record
OkSuccessAndData(resp) ==
    /\ OkAndSuccess(resp)
    /\ "data" \in DOMAIN resp.body.fields
    /\ resp.body.fields.data.kind = "object"

\* capture itself has not called the host function: after a capture that
\* returned, and after one that raised with fallback_to_normal off, there
\* is no host call
CaptureCallsNoHost(c) ==
    (Returned(captureOut[c]) \/ (Raised(captureOut[c]) /\ ~fallback_to_normal))
        => HostCalls(c) = 0 /\ hostOut[c] = Pending

\* C11 as stated: capture returns a result if and only if the /bypass reply
\* has an ok status and success true, raises otherwise, and never invokes
\* the host function itself.
C11_ReturnsIffOkAndSuccess ==
    \A c \in Calls :
        bypassResp[c] # NoResp
            => /\ Returned(captureOut[c]) <=> OkAndSuccess(bypassResp[c])
               /\ Raised(captureOut[c]) <=> ~OkAndSuccess(bypassResp[c])
               /\ CaptureCallsNoHost(c)

\* C11 amended: capture returns a result if and only if the /bypass reply
\* has an ok status, success true and a data field that is a record; in
\* every other case it raises; it never invokes the host function itself.
C11_ReturnsIffOkSuccessAndData ==
    \A c \in Calls :
        bypassResp[c] # NoResp
            => /\ Returned(captureOut[c]) <=> OkSuccessAndData(bypassResp[c])
               /\ Raised(captureOut[c]) <=> ~OkSuccessAndData(bypassResp[c])
               /\ CaptureCallsNoHost(c)

C11_Witness ==
    \E c, d \in Calls :
        /\ bypassResp[c] = Http(TRUE, Obj([success |-> TRUE, data |-> FullBypassData]))
        /\ Returned(captureOut[c])
        /\ bypassResp[d] = Http(FALSE, Obj([success |-> TRUE, data |-> FullBypassData]))
        /\ captureOut[d] = Raise("BypassServiceError")

-----------------------------------------------------------------------------
(* CloudflareBypassClient: the action endpoints *)

Payload == Obj([cloudflareDetected |-> TRUE, finalUrl |-> "https://x"])

ActionBodies ==
    { Malformed, NotObj, Obj(Empty),
      Obj([success |-> FALSE, error |-> "boom"]),
      Obj([success |-> FALSE, data |-> Payload]),
      Obj([data |-> Payload]),
      Obj([success |-> TRUE]),
      Obj([success |-> TRUE, data |-> NotObj]),
      Obj([success |-> TRUE, data |-> Payload]) }

ActionResponses ==
    {TransportFailure}
        \cup { Http(TRUE, b) : b \in ActionBodies }
        \cup { Http(FALSE, b) :
                 b \in {Malformed, Obj([success |-> TRUE, data |-> Payload])} }

\* variant of the success check that raises only when the body carries an
\* error field
SuccessDataIfNoError(r, message) ==
    IF Raised(r) THEN r
    ELSE IF r.val.kind # "object" THEN Raise("AttributeError")
    ELSE IF "error" \in DOMAIN r.val.fields THEN Raise(r.val.fields.error)
    ELSE IF "data" \notin DOMAIN r.val.fields THEN Raise("KeyError")
    ELSE Return(r.val.fields.data)

\* what follows _request in bypass, detect, screenshot and get_stats:
\* raise unless success is true, then return result["data"]
SuccessData(r, message) ==
    IF Raised(r) THEN r
    ELSE IF r.val.kind # "object" THEN Raise("AttributeError")
    ELSE IF ~Get(r.val.fields, "success", FALSE)
         THEN Raise(Get(r.val.fields, "error", message))
    ELSE IF "data" \notin DOMAIN r.val.fields THEN Raise("KeyError")
    ELSE Return(r.val.fields.data)

ClientBypass(resp) == SuccessData(Request(resp), "Bypass failed")
ClientDetect(resp) == SuccessData(Request(resp), "Detection failed")
ClientScreenshot(resp) == SuccessData(Request(resp), "Screenshot failed")
ClientGetStats(resp) == SuccessData(Request(resp), "Failed to get stats")

\* the optional arguments of bypass a caller can supply; a key that is
\* absent is an argument left at None
BypassArgs ==
    { t @@ u @@ p :
        t \in {Empty, [timeout |-> 0], [timeout |-> 30000]},
        u \in {Empty, [user_agent |-> ""], [user_agent |-> "UA"]},
        p \in {Empty, [proxy |-> ""], [proxy |-> "http://p"]} }

\* bypass: the options posted to /bypass (lines 118-132)
BypassOptions(args) ==
    [headless |-> TRUE, screenshot |-> TRUE, fullPage |-> TRUE,
     width |-> 1920, height |-> 1080, waitAfterBypass |-> 3000]
        @@ (IF "timeout" \in DOMAIN args /\ args.timeout # 0
            THEN [timeout |-> args.timeout] ELSE Empty)
        @@ (IF "user_agent" \in DOMAIN args /\ args.user_agent # ""
            THEN [userAgent |-> args.user_agent] ELSE Empty)
        @@ (IF "proxy" \in DOMAIN args /\ args.proxy # ""
            THEN [proxy |-> args.proxy] ELSE Empty)

CallBypass(args, resp) ==
    /\ action' = [fn |-> "bypass", args |-> args,
                  options |-> BypassOptions(args), resp |-> resp]
    /\ actionOut' = ClientBypass(resp)
    /\ UNCHANGED <<mwVars, clVars>>

CallDetect(resp) ==
    /\ action' = [fn |-> "detect", args |-> NoArgs, options |-> Empty,
                  resp |-> resp]
    /\ actionOut' = ClientDetect(resp)
    /\ UNCHANGED <<mwVars, clVars>>

CallScreenshot(resp) ==
    /\ action' = [fn |-> "screenshot", args |-> NoArgs, options |-> Empty,
                  resp |-> resp]
    /\ actionOut' = ClientScreenshot(resp)
    /\ UNCHANGED <<mwVars, clVars>>

CallGetStats(resp) ==
    /\ action' = [fn |-> "get_stats", args |-> NoArgs, options |-> Empty,
                  resp |-> resp]
    /\ actionOut' = ClientGetStats(resp)
    /\ UNCHANGED <<mwVars, clVars>>

ActionInit == MwIdle /\ ClientIdle /\ ActionIdle

ActionNext ==
    \/ \E args \in BypassArgs, resp \in ActionResponses : CallBypass(args, resp)
    \/ \E resp \in ActionResponses : CallDetect(resp)
    \/ \E resp \in ActionResponses : CallScreenshot(resp)
    \/ \E resp \in ActionResponses : CallGetStats(resp)

ActionSpec == ActionInit /\ [][ActionNext]_vars

-----------------------------------------------------------------------------
(* Properties of the action endpoints *)

ActionFns == {"bypass", "detect", "screenshot", "get_stats"}

\* an HTTP 200 reply whose JSON object lacks success true
OkWithoutSuccess(resp) ==
    /\ resp.net = "ok"
    /\ resp.ok
    /\ resp.body.kind = "object"
    /\ ~Get(resp.body.fields, "success", FALSE)

\* C12: detect, bypass, screenshot and get_stats raise on an HTTP 200 reply
\* whose body has success false or no success field; they return only when
\* success is true, and then the body's data.
C12_SuccessFieldDecides ==
    action.fn \in ActionFns
        => /\ OkWithoutSuccess(action.resp) => Raised(actionOut)
           /\ Returned(actionOut)
                 => /\ OkAndSuccess(action.resp)
                    /\ actionOut.val = action.resp.body.fields.data
           /\ actionOut.kind \in {"return", "raise"}

C12_Witness ==
    /\ action.fn = "get_stats"
    /\ action.resp = Http(TRUE, Obj([success |-> FALSE, data |-> Payload]))
    /\ Raised(actionOut)

\* C18 as stated: bypass sends timeout, userAgent and proxy exactly when the
\* caller supplied a non-null value (0 and "" included), and always sends
\* the six default keys.
C18_OptionalKeysWhenSupplied ==
    action.fn = "bypass"
        => /\ ("timeout" \in DOMAIN action.options)
                 <=> ("timeout" \in DOMAIN action.args)
           /\ ("userAgent" \in DOMAIN action.options)
                 <=> ("user_agent" \in DOMAIN action.args)
           /\ ("proxy" \in DOMAIN action.options)
                 <=> ("proxy" \in DOMAIN action.args)
           /\ {"headless", "screenshot", "fullPage", "width", "height",
               "waitAfterBypass"} \subseteq DOMAIN action.options

\* the keys of the host's result shape that are not optional
RequiredKeys ==
    {"screenshot", "screenshot_format", "network_logs", "dom_elements",
     "final_url", "capture_config", "cloudflare_bypass"}

\* the fixed part of a translated result r
HasHostShape(r) ==
    /\ RequiredKeys \subseteq DOMAIN r
    /\ r.screenshot_format = "png"
    /\ r.network_logs = <<>>
    /\ r.dom_elements = [clickable_elements |-> <<>>, forms |-> <<>>,
                         scripts |-> <<>>, popups |-> <<>>]
    /\ DOMAIN r.capture_config = {"full_page", "width", "height", "delay"}
    /\ DOMAIN r.cloudflare_bypass
           = {"detected", "indicator", "successful", "timing"}

\* C13 as stated: every result capture returns has every key of the host's
\* result shape, cookies included, whatever the service's data holds.
C13_AllKeysPresent ==
    \A c \in Calls :
        Returned(captureOut[c])
            => /\ HasHostShape(captureOut[c].val)
               /\ "cookies" \in DOMAIN captureOut[c].val

\* C13 amended: every result capture returns has every key of the host's
\* result shape except cookies; cookies is present exactly when the service
\* sent a non-empty cookie list, and then holds that list.
C13_KeysPresentCookiesOptional ==
    \A c \in Calls :
        Returned(captureOut[c])
            => LET r == captureOut[c].val
                   sent == Get(bypassResp[c].body.fields.data.fields,
                               "cookies", <<>>)
               IN  /\ HasHostShape(r)
                   /\ ("cookies" \in DOMAIN r) <=> (sent # <<>>)
                   /\ "cookies" \in DOMAIN r => r.cookies = sent

C13_Witness ==
    \E c \in Calls :
        /\ bypassResp[c] = Http(TRUE, Obj([success |-> TRUE, data |-> Obj(Empty)]))
        /\ Returned(captureOut[c])
        /\ captureOut[c].val.screenshot = None
        /\ captureOut[c].val.final_url = req[c].url

-----------------------------------------------------------------------------
(* Order of the external calls of one capture_with_fallback call *)

Rank(x) ==
    CASE x = "health" -> 1
      [] x = "detect" -> 2
      [] x = "bypass" -> 3
      [] x = "host" -> 4

\* C14: the external calls of one call come in the order health, detect,
\* bypass, host, at most one of each; /detect only after a healthy /health
\* reply, /bypass only after a positive /detect reply, and the host call,
\* when there is one, last.
C14_SequentialChain ==
    \A c \in Calls :
        /\ \A i, j \in DOMAIN log[c] :
               i < j => Rank(log[c][i]) < Rank(log[c][j])
        /\ DetectCalls(c) >= 1
               => /\ log[c][1] = "health"
                  /\ ReportsHealthy(healthResp[c])
        /\ BypassCalls(c) >= 1
               => /\ Len(log[c]) >= 3
                  /\ log[c][1] = "health"
                  /\ log[c][2] = "detect"
                  /\ log[c][3] = "bypass"
                  /\ PositiveDetect(detectResp[c])
        /\ Done(c) /\ HostCalls(c) >= 1
               => log[c][Len(log[c])] = "host"
        /\ Len(log[c]) <= 4

C14_Witness ==
    \E c \in Calls :
        /\ Done(c)
        /\ log[c] = <<"health", "detect", "bypass", "host">>

-----------------------------------------------------------------------------
(* The cached availability field *)

\* C15 as stated: after a call of is_service_available, _service_available
\* is the boolean that call returned.
C15_CacheHoldsLastAnswer ==
    probe.fn = "is_service_available"
        => /\ Returned(probeOut)
           /\ probeAvail = AvailStr(probeOut.val)

\* the replies c has received so far and the arguments it was called with
Inputs(c) ==
    <<req[c], healthResp[c], detectResp[c], bypassResp[c], hostOut[c]>>

\* C16: under every interleaving of concurrent calls on one instance, two
\* finished calls with the same arguments and the same replies to their own
\* requests took the same route and ended the same way, whatever the other
\* call wrote to _service_available; the route follows the call's own
\* /health reply.
C16_RouteFromOwnReplies ==
    /\ \A c, d \in Calls :
           (Done(c) /\ Done(d) /\ Inputs(c) = Inputs(d))
               => /\ log[c] = log[d]
                  /\ needs[c] = needs[d]
                  /\ captureOut[c] = captureOut[d]
                  /\ result[c] = result[d]
    /\ \A c \in Calls :
           healthResp[c] # NoResp
               => (DetectCalls(c) = 1 <=> ReportsHealthy(healthResp[c]))

C16_Witness ==
    \E c, d \in Calls :
        /\ c # d
        /\ Done(c) /\ Done(d)
        /\ healthResp[c] = Http(TRUE, Obj([status |-> "healthy"]))
        /\ BypassCalls(c) = 1
        /\ healthResp[d] = Http(FALSE, Obj([status |-> "healthy"]))
        /\ service_available = "True"
        /\ log[d] = <<"health", "host">>

-----------------------------------------------------------------------------
(* Exceptions of needs_bypass, the sleeps of the wait loop, auto_detect off *)

\* C17 as stated: an exception raised by needs_bypass reaches the caller of
\* capture_with_fallback, with fallback_to_normal on or off.
C17_NeedsBypassErrorReachesCaller ==
    \A c \in Calls :
        (Done(c) /\ Raised(needs[c]))
            => /\ result[c] = needs[c]
               /\ HostCalls(c) = 0

\* C17 amended: the try block of capture_with_fallback covers needs_bypass;
\* its exception reaches the caller only with fallback_to_normal off; with
\* fallback_to_normal on it is swallowed, the host function is called once,
\* no bypass call is made, and the call ends as the host function ends.
C17_NeedsBypassErrorCaught ==
    \A c \in Calls :
        Raised(needs[c])
            => /\ BypassCalls(c) = 0
               /\ ~fallback_to_normal
                     => Done(c) /\ result[c] = needs[c] /\ HostCalls(c) = 0
               /\ fallback_to_normal
                     => /\ HostCalls(c) = 1
                        /\ pc[c] \in {"host", "done"}
                        /\ Done(c) => result[c] = hostOut[c]

C17_Witness ==
    \E c \in Calls :
        /\ fallback_to_normal
        /\ detectResp[c] = Http(TRUE, Obj([success |-> TRUE, data |-> NotObj]))
        /\ needs[c] = Raise("AttributeError")
        /\ Done(c)
        /\ Returned(result[c])

\* C19 as stated: the wait loop sleeps only between two health attempts; a
\* run whose max_attempts attempts all fail has slept max_attempts - 1
\* times and its last step before raising is the failed attempt.
C19_SleepOnlyBetweenAttempts ==
    (wpc = "done" /\ Raised(wresult) /\ max_attempts >= 1)
        => /\ sleeps = max_attempts - 1
           /\ wlog[Len(wlog)] = "is_healthy"

\* C20: with auto_detect off, needs_bypass returns False without a /health
\* or /detect call and without touching _service_available; the call makes
\* no call to the bypass service, calls the host function and ends with its
\* outcome.
C20_AutoDetectOffIsPassThrough ==
    ~auto_detect
        => /\ service_available = "None"
           /\ \A c \in Calls :
                  pc[c] # "idle"
                      => /\ needs[c] = Return(FALSE)
                         /\ log[c] = <<"host">>
                         /\ healthResp[c] = NoResp
                         /\ detectResp[c] = NoResp
                         /\ bypassResp[c] = NoResp
                         /\ Done(c) => result[c] = hostOut[c]

C20_Witness ==
    /\ ~auto_detect
    /\ \A c \in Calls :
           Done(c) /\ Returned(result[c]) /\ result[c] = hostOut[c]

-----------------------------------------------------------------------------
(* Who writes the availability field *)

\* call c finishes its detect_cloudflare, its capture or its host call in
\* this step
StepAfterHealth(c) ==
    /\ pc[c] \in {"detect", "bypass", "host"}
    /\ pc'[c] # pc[c]

\* C21: _service_available is None on a new instance and only
\* is_service_available changes it: a step in which detect_cloudflare,
\* capture or the host function finishes, with success or failure, leaves
\* it as it was.
C21_OnlyAvailabilityProbeWrites ==
    /\ service_available = "None"
    /\ [][ /\ (\E c \in Calls : StepAfterHealth(c))
                 => service_available' = service_available
           /\ service_available' # service_available
                 => \E c \in Calls : pc[c] = "health" /\ pc'[c] # "health"
         ]_vars

C21_Witness ==
    \E c, d \in Calls :
        /\ service_available = "True"
        /\ Done(c) /\ Returned(captureOut[c])
        /\ Done(d) /\ detectResp[d] = TransportFailure /\ Raised(hostOut[d])

====
